---- MODULE Spec2Model ----
(***************************************************************************)
(* Search/match engine and layered decoration compositor of the code       *)
(* editor widget (src/src/code_editor): SearchService, DecorationService   *)
(* and the CodeEditor handlers that wire them to the search popup.         *)
(*                                                                         *)
(* Positions are 0-based offsets as in the code; the character at          *)
(* position p of a document d is d[p + 1].                                 *)
(***************************************************************************)
EXTENDS Integers, Sequences, FiniteSets, TLC

VARIABLES
    doc,            \* QTextDocument text, a sequence of characters
    readOnly,       \* QPlainTextEdit.isReadOnly()
    matches,        \* SearchService._matches
    current_index,  \* SearchService._current_index
    last_pattern,   \* SearchService._last_pattern
    case_sensitive, \* SearchService._case_sensitive
    use_regex,      \* SearchService._use_regex
    whole_word,     \* SearchService._whole_word
    layers,         \* DecorationService._layers
    host,           \* the list last handed to QPlainTextEdit.setExtraSelections
    popup,          \* CodeEditor._search_popup and the SearchPopup widget's fields
    textCursor,     \* QPlainTextEdit.textCursor(): selection start and end
    current_line_highlight_enabled, \* CodeEditor._current_line_highlight_enabled
    scan,           \* the locals of a search() call that is inside its scan loop
    raised,         \* the exception the last operation let escape, "none" if it returned
    ret,            \* the value the last operation returned
    lastOp,         \* the last operation called
    nav,            \* history: the run of consecutive next/previous calls
    args,           \* history: the arguments of the last SearchService.search call
    applyCalls,     \* history: DecorationService.apply() calls made by the last operation
    setCalls,       \* history: setExtraSelections calls made by the last operation
    returned,       \* history: the contents of the list when get_matches() last returned it
    overlay,        \* CodeEditor._goto_line_overlay and the GotoLineOverlay widget's fields
    hover,          \* CodeEditor._hover_enabled and _last_hover_line
    modelSearch     \* the model-backed SearchService: its SearchModel and the locals of a scan

vars == <<doc, readOnly, matches, current_index, last_pattern, case_sensitive,
          use_regex, whole_word, layers, host, popup, textCursor,
          current_line_highlight_enabled, scan, raised, ret, lastOp, nav,
          args, applyCalls, setCalls, returned, overlay, hover, modelSearch>>

svcVars == <<matches, current_index, last_pattern, case_sensitive, use_regex, whole_word>>

-----------------------------------------------------------------------------
(* Bounds of the model *)

MaxDocLen == 3

LongDocLen == 10001

MaxDecorations == 3

MaxFaultySteps == 3

MaxLineInput == 4

-----------------------------------------------------------------------------
(* Documents and patterns *)

NL == "NL"

Alphabet == {"a", "A", NL}

Docs == UNION {[1..n -> Alphabet] : n \in 0..MaxDocLen}

LongDoc == [i \in 1..LongDocLen |-> "a"]

Patterns == {<<>>, <<"a">>, <<"a", "a">>, <<"a", NL, "a">>,
             <<"a", "*">>, <<".", "*">>, <<"[">>}

Fold(c) == IF c = "A" THEN "a" ELSE c

IsLetterOrNumber(c) == c \in {"a", "A"}

CharEq(c1, c2, cs) == IF cs THEN c1 = c2 ELSE Fold(c1) = Fold(c2)

characterCount(d) == Len(d) + 1

-----------------------------------------------------------------------------
(* QTextCursor values: a null cursor, or a selection [start, end) whose     *)
(* position() is its end.                                                   *)

NullCursor == [null |-> TRUE, start |-> -1, end |-> -1]

Cursor(s, e) == [null |-> FALSE, start |-> s, end |-> e]

Position(c) == IF c.null THEN -1 ELSE c.end

-----------------------------------------------------------------------------
(* The find primitive, QTextDocument.find: the first match at or after an   *)
(* offset, searched block by block, so a match never spans a line break.    *)

LiteralAt(d, p, i, cs) ==
    /\ i >= 0
    /\ i + Len(p) <= Len(d)
    /\ \A k \in 1..Len(p) : d[i + k] # NL /\ CharEq(d[i + k], p[k], cs)

RECURSIVE IndexOf(_, _, _, _)
IndexOf(d, p, off, cs) ==
    IF off + Len(p) > Len(d) THEN -1
    ELSE IF LiteralAt(d, p, off, cs) THEN off
    ELSE IndexOf(d, p, off + 1, cs)

WholeWordAt(d, s, e) ==
    /\ ~(s > 0 /\ IsLetterOrNumber(d[s]))
    /\ ~(e < Len(d) /\ IsLetterOrNumber(d[e + 1]))

RECURSIVE FindPlainFrom(_, _, _, _, _)
FindPlainFrom(d, p, off, cs, ww) ==
    LET i == IndexOf(d, p, off, cs) IN
    IF Len(p) = 0 \/ off < 0 THEN NullCursor
    ELSE IF i = -1 THEN NullCursor
    ELSE IF ww /\ ~WholeWordAt(d, i, i + Len(p))
         THEN FindPlainFrom(d, p, i + Len(p) + 1, cs, ww)
    ELSE Cursor(i, i + Len(p))

(* QRegExp, for the patterns of the model: a literal, x* and .*, and the    *)
(* unterminated class "[", which is invalid and therefore never matches.    *)

RegexValid(p) == \A k \in 1..Len(p) : p[k] # "["

IsStar(p) == Len(p) = 2 /\ p[2] = "*"

RECURSIVE RunLen(_, _, _, _)
RunLen(d, c, i, cs) ==
    IF i >= Len(d) \/ d[i + 1] = NL THEN 0
    ELSE IF c = "." \/ CharEq(d[i + 1], c, cs) THEN 1 + RunLen(d, c, i + 1, cs)
    ELSE 0

RegexMatchLen(d, p, i, cs) ==
    IF ~RegexValid(p) THEN -1
    ELSE IF IsStar(p) THEN RunLen(d, p[1], i, cs)
    ELSE IF LiteralAt(d, p, i, cs) THEN Len(p)
    ELSE -1

RECURSIVE RegexIndexIn(_, _, _, _)
RegexIndexIn(d, p, off, cs) ==
    IF off > Len(d) THEN -1
    ELSE IF RegexMatchLen(d, p, off, cs) >= 0 THEN off
    ELSE RegexIndexIn(d, p, off + 1, cs)

RECURSIVE FindRegexFrom(_, _, _, _, _)
FindRegexFrom(d, p, off, cs, ww) ==
    LET i == RegexIndexIn(d, p, off, cs)
        n == RegexMatchLen(d, p, i, cs)
    IN
    IF Len(p) = 0 \/ off < 0 THEN NullCursor
    ELSE IF i = -1 THEN NullCursor
    ELSE IF ww /\ ~WholeWordAt(d, i, i + n)
         THEN FindRegexFrom(d, p, i + n + 1, cs, ww)
    ELSE Cursor(i, i + n)

DocumentFindFromSelectionStart(d, p, re, cursor, cs, ww) ==
    LET pos == IF cursor.null THEN 0
               ELSE IF cursor.start = cursor.end THEN cursor.end
               ELSE cursor.start + 1
    IN
    IF re THEN FindRegexFrom(d, p, pos, cs, ww)
    ELSE FindPlainFrom(d, p, pos, cs, ww)

DocumentFind(d, p, re, cursor, cs, ww) ==
    LET pos == IF cursor.null THEN 0 ELSE cursor.end IN
    IF re THEN FindRegexFrom(d, p, pos, cs, ww)
    ELSE FindPlainFrom(d, p, pos, cs, ww)

-----------------------------------------------------------------------------
(* SearchMatch.from_cursor *)

from_cursor(d, c) ==
    [cursor |-> c, start |-> c.start, end |-> c.end,
     text |-> SubSeq(d, c.start + 1, c.end)]

-----------------------------------------------------------------------------
(* SearchService.search: the scan loop.  st holds the locals of the call:   *)
(* cur (cursor), last (last_position), iter (iteration_count), ms (the      *)
(* list self._matches being filled) and running (still inside the loop).    *)

max_iterations == 10000

ScanInit(d, p, cs, re, ww, ms0) ==
    [cur     |-> DocumentFind(d, p, re, Cursor(0, 0), cs, ww),
     last    |-> -1,
     iter    |-> 0,
     ms      |-> ms0,
     running |-> TRUE]

LoopGuard(st) == ~st.cur.null /\ st.iter < max_iterations

RegexBodySkipUncounted(d, p, cs, ww, st) ==
    LET current_pos == Position(st.cur)
        next_pos    == current_pos + 1
    IN
    IF current_pos = st.last THEN
        IF next_pos >= characterCount(d) THEN [st EXCEPT !.running = FALSE]
        ELSE [st EXCEPT
                !.cur = DocumentFind(d, p, TRUE, Cursor(next_pos, next_pos), cs, ww)]
    ELSE IF current_pos < 0 \/ current_pos >= characterCount(d)
         THEN [st EXCEPT !.running = FALSE]
    ELSE [st EXCEPT
            !.ms   = Append(@, from_cursor(d, st.cur)),
            !.last = current_pos,
            !.cur  = DocumentFind(d, p, TRUE, st.cur, cs, ww),
            !.iter = @ + 1]

RegexBodySkipOutOfRange(d, p, cs, ww, st) ==
    LET current_pos == Position(st.cur)
        next_pos    == current_pos + 1
    IN
    IF current_pos = st.last THEN
        IF next_pos >= characterCount(d) THEN [st EXCEPT !.running = FALSE]
        ELSE [st EXCEPT
                !.cur  = DocumentFind(d, p, TRUE, Cursor(next_pos, next_pos), cs, ww),
                !.iter = @ + 1]
    ELSE IF current_pos < 0 \/ current_pos >= characterCount(d)
         THEN [st EXCEPT !.iter = @ + 1]
    ELSE [st EXCEPT
            !.ms   = Append(@, from_cursor(d, st.cur)),
            !.last = current_pos,
            !.cur  = DocumentFind(d, p, TRUE, st.cur, cs, ww),
            !.iter = @ + 1]

RegexBodyRetryInPlace(d, p, cs, ww, st) ==
    LET current_pos == Position(st.cur)
        next_pos    == current_pos + 1
    IN
    IF current_pos = st.last THEN
        IF next_pos >= characterCount(d) THEN [st EXCEPT !.running = FALSE]
        ELSE [st EXCEPT
                !.cur  = DocumentFind(d, p, TRUE, st.cur, cs, ww),
                !.iter = @ + 1]
    ELSE IF current_pos < 0 \/ current_pos >= characterCount(d)
         THEN [st EXCEPT !.running = FALSE]
    ELSE [st EXCEPT
            !.ms   = Append(@, from_cursor(d, st.cur)),
            !.last = current_pos,
            !.cur  = DocumentFind(d, p, TRUE, st.cur, cs, ww),
            !.iter = @ + 1]

RegexBody(d, p, cs, ww, st) ==
    LET current_pos == Position(st.cur)
        next_pos    == current_pos + 1
    IN
    IF current_pos = st.last THEN
        IF next_pos >= characterCount(d) THEN [st EXCEPT !.running = FALSE]
        ELSE [st EXCEPT
                !.cur  = DocumentFind(d, p, TRUE, Cursor(next_pos, next_pos), cs, ww),
                !.iter = @ + 1]
    ELSE IF current_pos < 0 \/ current_pos >= characterCount(d)
         THEN [st EXCEPT !.running = FALSE]
    ELSE [st EXCEPT
            !.ms   = Append(@, from_cursor(d, st.cur)),
            !.last = current_pos,
            !.cur  = DocumentFind(d, p, TRUE, st.cur, cs, ww),
            !.iter = @ + 1]

PlainBodyLengthBound(d, p, cs, ww, st) ==
    LET current_pos == Position(st.cur) IN
    IF current_pos = st.last THEN [st EXCEPT !.running = FALSE]
    ELSE IF current_pos < 0 \/ current_pos >= Len(d)
         THEN [st EXCEPT !.running = FALSE]
    ELSE [st EXCEPT
            !.ms   = Append(@, from_cursor(d, st.cur)),
            !.last = current_pos,
            !.cur  = DocumentFind(d, p, FALSE, st.cur, cs, ww),
            !.iter = @ + 1]

PlainBody(d, p, cs, ww, st) ==
    LET current_pos == Position(st.cur) IN
    IF current_pos = st.last THEN [st EXCEPT !.running = FALSE]
    ELSE IF current_pos < 0 \/ current_pos >= characterCount(d)
         THEN [st EXCEPT !.running = FALSE]
    ELSE [st EXCEPT
            !.ms   = Append(@, from_cursor(d, st.cur)),
            !.last = current_pos,
            !.cur  = DocumentFind(d, p, FALSE, st.cur, cs, ww),
            !.iter = @ + 1]

ScanStep(d, p, cs, re, ww, st) ==
    IF ~LoopGuard(st) THEN [st EXCEPT !.running = FALSE]
    ELSE IF re THEN RegexBody(d, p, cs, ww, st)
    ELSE PlainBody(d, p, cs, ww, st)

RECURSIVE ScanRun(_, _, _, _, _, _)
ScanRun(d, p, cs, re, ww, st) ==
    IF ~st.running THEN st
    ELSE ScanRun(d, p, cs, re, ww, ScanStep(d, p, cs, re, ww, st))

-----------------------------------------------------------------------------
(* SearchService, as operators on the record s of its fields *)

Svc ==
    [matches        |-> matches,
     current_index  |-> current_index,
     last_pattern   |-> last_pattern,
     case_sensitive |-> case_sensitive,
     use_regex      |-> use_regex,
     whole_word     |-> whole_word]

SvcInit ==
    [matches        |-> <<>>,
     current_index  |-> -1,
     last_pattern   |-> <<>>,
     case_sensitive |-> FALSE,
     use_regex      |-> FALSE,
     whole_word     |-> FALSE]

SearchResetUnlessEmpty(s, p, cs, re, ww) ==
    IF p = <<>>
    THEN [s EXCEPT !.matches = <<>>, !.current_index = -1]
    ELSE [matches        |-> <<>>,
          current_index  |-> -1,
          last_pattern   |-> p,
          case_sensitive |-> cs,
          use_regex      |-> re,
          whole_word     |-> ww]

SearchResetKeepMatches(s, p, cs, re, ww) ==
    [s EXCEPT !.last_pattern   = p,
              !.case_sensitive = cs,
              !.use_regex      = re,
              !.whole_word     = ww]

SearchReset(s, p, cs, re, ww) ==
    [matches        |-> <<>>,
     current_index  |-> -1,
     last_pattern   |-> p,
     case_sensitive |-> cs,
     use_regex      |-> re,
     whole_word     |-> ww]

SearchFinish(s, ms) ==
    [s EXCEPT !.matches = ms,
              !.current_index = IF ms # <<>> THEN 0 ELSE s.current_index]

search(s, d, p, cs, re, ww) ==
    LET s0 == SearchReset(s, p, cs, re, ww) IN
    IF p = <<>> THEN s0
    ELSE SearchFinish(s0, ScanRun(d, p, cs, re, ww,
                                   ScanInit(d, p, cs, re, ww, s0.matches)).ms)

get_current_match(s) ==
    IF 0 <= s.current_index /\ s.current_index < Len(s.matches)
    THEN <<s.matches[s.current_index + 1]>>
    ELSE <<>>

next_match_unguarded(s) ==
    [s EXCEPT !.current_index =
        IF s.matches = <<>> THEN @ + 1 ELSE (@ + 1) % Len(s.matches)]

next_match(s) ==
    IF s.matches = <<>> THEN s
    ELSE [s EXCEPT !.current_index = (s.current_index + 1) % Len(s.matches)]

previous_match_nowrap(s) ==
    IF s.matches = <<>> THEN s
    ELSE [s EXCEPT !.current_index = s.current_index - 1]

previous_match(s) ==
    IF s.matches = <<>> THEN s
    ELSE [s EXCEPT !.current_index = (s.current_index - 1) % Len(s.matches)]

clear_keep_index(s) == [s EXCEPT !.matches = <<>>]

clear(s) == [s EXCEPT !.matches = <<>>, !.current_index = -1]

needs_research_pattern_only(s, p, cs, re, ww) ==
    \/ p # s.last_pattern
    \/ Len(s.matches) = 0

needs_research(s, p, cs, re, ww) ==
    \/ p # s.last_pattern
    \/ cs # s.case_sensitive
    \/ re # s.use_regex
    \/ ww # s.whole_word
    \/ Len(s.matches) = 0

SetSvc(s) ==
    /\ matches' = s.matches
    /\ current_index' = s.current_index
    /\ last_pattern' = s.last_pattern
    /\ case_sensitive' = s.case_sensitive
    /\ use_regex' = s.use_regex
    /\ whole_word' = s.whole_word

-----------------------------------------------------------------------------
(* DecorationService *)

DecorationLayer == {"CUSTOM", "CURRENT_LINE", "SEARCH_MATCHES", "CURRENT_MATCH"}

LayerValue(l) ==
    CASE l = "CUSTOM"         -> 1
      [] l = "CURRENT_LINE"   -> 2
      [] l = "SEARCH_MATCHES" -> 3
      [] l = "CURRENT_MATCH"  -> 4

Decoration(cursor, bg_color, full_width) ==
    [cursor |-> cursor, bg_color |-> bg_color, full_width |-> full_width]

to_extra_selection(dec) ==
    [cursor     |-> dec.cursor,
     background |-> dec.bg_color,
     fullWidth  |-> dec.full_width]

LayersInit == [l \in DecorationLayer |-> <<>>]

add_decoration_dedup(L, layer, cursor, bg_color, full_width) ==
    IF \E i \in 1..Len(L[layer]) :
           L[layer][i] = [cursor |-> cursor, bg_color |-> bg_color,
                          full_width |-> full_width]
    THEN L
    ELSE [L EXCEPT ![layer] = Append(@, [cursor |-> cursor, bg_color |-> bg_color,
                                         full_width |-> full_width])]

add_decoration(L, layer, cursor, bg_color, full_width) ==
    [L EXCEPT ![layer] = Append(@, Decoration(cursor, bg_color, full_width))]

clear_layer_and_above(L, layer) ==
    [l \in DOMAIN L |-> IF l = layer \/ l = "CURRENT_MATCH" THEN <<>> ELSE L[l]]

clear_layer(L, layer) == [L EXCEPT ![layer] = <<>>]

clear_all(L) == [l \in DecorationLayer |-> <<>>]

SortedLayersByName ==
    <<"CURRENT_LINE", "CURRENT_MATCH", "CUSTOM", "SEARCH_MATCHES">>

SortedLayers ==
    CHOOSE q \in [1..Cardinality(DecorationLayer) -> DecorationLayer] :
        \A i \in DOMAIN q : LayerValue(q[i]) = i

RECURSIVE Collect(_, _, _)
Collect(L, order, i) ==
    IF i > Len(order) THEN <<>>
    ELSE L[order[i]] \o Collect(L, order, i + 1)

apply(L) ==
    LET all_decorations == Collect(L, SortedLayers, 1) IN
    [i \in 1..Len(all_decorations) |-> to_extra_selection(all_decorations[i])]

get_layer_count(L, layer) == Len(L[layer])

TotalDecorations(L) ==
    Len(L["CUSTOM"]) + Len(L["CURRENT_LINE"])
        + Len(L["SEARCH_MATCHES"]) + Len(L["CURRENT_MATCH"])

-----------------------------------------------------------------------------
(* Initial states *)

PopupInit ==
    [exists       |-> FALSE,
     visible      |-> FALSE,
     text         |-> <<>>,
     cs           |-> FALSE,
     re           |-> FALSE,
     ww           |-> FALSE,
     last_pattern |-> <<>>,
     label        |-> [text |-> "No results", current |-> 0, total |-> 0, red |-> FALSE],
     replace_mode |-> FALSE]

ScanIdle ==
    [cur |-> NullCursor, last |-> -1, iter |-> 0, running |-> FALSE]

NavNone == [kind |-> "none", start |-> -1, count |-> 0]

NotReturned == [held |-> FALSE, contents |-> <<>>]

(* The overlay's input holds <<>> (empty) or <<n>> (the digits of n); its    *)
(* info label shows "(1-max)" (kind "range"), a check mark and "Line n"     *)
(* (kind "ok") or a cross mark (kind "invalid").                            *)
(* CodeEditor.__init__: hover highlighting is on and no line is hovered *)
HoverInit == [enabled |-> TRUE, last_line |-> -1]

(* The model-backed SearchService after construction: model holds the       *)
(* fields of its SearchModel; the rest are the locals of a running          *)
(* _find_regex_matches or _find_plain_matches (mode says which), found      *)
(* being the local list matches, and calls counting document.find calls.    *)
ModelInit ==
    [pattern |-> <<>>, case_sensitive |-> FALSE, use_regex |-> FALSE,
     whole_word |-> FALSE, matches |-> <<>>, current_index |-> -1]

ModelSearchInit ==
    [model |-> ModelInit, mode |-> "idle", cur |-> Cursor(0, 0), last |-> -1,
     iter |-> 0, found |-> <<>>, calls |-> 0, raised |-> FALSE]

OverlayInit ==
    [exists   |-> FALSE,
     visible  |-> FALSE,
     max_line |-> 0,
     input    |-> <<>>,
     label    |-> [kind |-> "range", line |-> 0]]

(* Freshly constructed SearchService and DecorationService on a document d *)
ServicesInit(d) ==
    /\ doc = d
    /\ readOnly = FALSE
    /\ matches = SvcInit.matches
    /\ current_index = SvcInit.current_index
    /\ last_pattern = SvcInit.last_pattern
    /\ case_sensitive = SvcInit.case_sensitive
    /\ use_regex = SvcInit.use_regex
    /\ whole_word = SvcInit.whole_word
    /\ layers = LayersInit
    /\ host = <<>>
    /\ popup = PopupInit
    /\ textCursor = Cursor(0, 0)
    /\ current_line_highlight_enabled = TRUE
    /\ scan = ScanIdle
    /\ raised = "none"
    /\ ret = 0
    /\ lastOp = "init"
    /\ nav = NavNone
    /\ args = <<>>
    /\ applyCalls = 0
    /\ setCalls = 0
    /\ returned = NotReturned
    /\ overlay = OverlayInit
    /\ hover = HoverInit
    /\ modelSearch = ModelSearchInit

-----------------------------------------------------------------------------
(* Specification SpecDeco: calls on a DecorationService *)

DecoInputs ==
    {[cursor |-> Cursor(0, 1), bg_color |-> "c1", full_width |-> FALSE],
     [cursor |-> Cursor(1, 2), bg_color |-> "c2", full_width |-> TRUE]}

InitDeco == ServicesInit(<<"a", "a">>)

DecoFrame ==
    UNCHANGED <<doc, readOnly, svcVars, popup, textCursor,
                current_line_highlight_enabled, scan, raised, ret, nav, args,
                returned, overlay, hover, modelSearch>>

AddDecoration(layer, in) ==
    /\ TotalDecorations(layers) < MaxDecorations
    /\ layers' = add_decoration(layers, layer, in.cursor, in.bg_color, in.full_width)
    /\ lastOp' = "add_decoration"
    /\ applyCalls' = 0
    /\ setCalls' = 0
    /\ UNCHANGED host
    /\ DecoFrame

ClearLayer(layer) ==
    /\ layers' = clear_layer(layers, layer)
    /\ lastOp' = "clear_layer"
    /\ applyCalls' = 0
    /\ setCalls' = 0
    /\ UNCHANGED host
    /\ DecoFrame

ClearAll ==
    /\ layers' = clear_all(layers)
    /\ lastOp' = "clear_all"
    /\ applyCalls' = 0
    /\ setCalls' = 0
    /\ UNCHANGED host
    /\ DecoFrame

Apply ==
    /\ host' = apply(layers)
    /\ setCalls' = 1
    /\ lastOp' = "apply"
    /\ applyCalls' = 1
    /\ UNCHANGED layers
    /\ DecoFrame

NextDeco ==
    \/ \E layer \in DecorationLayer, in \in DecoInputs : AddDecoration(layer, in)
    \/ \E layer \in DecorationLayer : ClearLayer(layer)
    \/ ClearAll
    \/ Apply

SpecDeco == InitDeco /\ [][NextDeco]_vars

-----------------------------------------------------------------------------
(* Specification SpecSearch: calls on a SearchService over a fixed document *)

InitSearch == \E d \in Docs : ServicesInit(d)

SearchFrame ==
    UNCHANGED <<doc, readOnly, layers, host, popup, textCursor,
                current_line_highlight_enabled, scan, raised, applyCalls,
                setCalls, returned, overlay, hover, modelSearch>>

NavAfter(kind, s) ==
    IF s.matches = <<>> THEN NavNone
    ELSE IF nav.kind = kind /\ nav.count < Len(s.matches)
         THEN [nav EXCEPT !.count = @ + 1]
    ELSE [kind |-> kind, start |-> s.current_index, count |-> 1]

SameCriteria(p, cs, re, ww) ==
    /\ p = last_pattern
    /\ cs = case_sensitive
    /\ re = use_regex
    /\ ww = whole_word

Search(p, cs, re, ww) ==
    /\ SetSvc(search(Svc, doc, p, cs, re, ww))
    /\ ret' = Len(matches')
    /\ lastOp' = IF lastOp \in {"search", "search_again"} /\ SameCriteria(p, cs, re, ww)
                 THEN "search_again"
                 ELSE "search"
    /\ nav' = NavNone
    /\ args' = <<p, cs, re, ww>>
    /\ SearchFrame

NextMatch ==
    /\ SetSvc(next_match(Svc))
    /\ ret' = Len(get_current_match(next_match(Svc)))
    /\ lastOp' = "next_match"
    /\ nav' = NavAfter("next", Svc)
    /\ UNCHANGED args
    /\ SearchFrame

PreviousMatch ==
    /\ SetSvc(previous_match(Svc))
    /\ ret' = Len(get_current_match(previous_match(Svc)))
    /\ lastOp' = "previous_match"
    /\ nav' = NavAfter("previous", Svc)
    /\ UNCHANGED args
    /\ SearchFrame

Clear ==
    /\ SetSvc(clear(Svc))
    /\ ret' = 0
    /\ lastOp' = "clear"
    /\ nav' = NavNone
    /\ UNCHANGED args
    /\ SearchFrame

(* needs_research is a pure query; ret holds the returned bool as Python's  *)
(* integer value of it (True == 1, False == 0).                             *)
NeedsResearch(p, cs, re, ww) ==
    /\ lastOp' = "needs_research"
    /\ ret' = IF needs_research(Svc, p, cs, re, ww) THEN 1 ELSE 0
    /\ UNCHANGED <<svcVars, nav, args>>
    /\ SearchFrame

NextSearch ==
    \/ \E p \in Patterns, cs \in BOOLEAN, re \in BOOLEAN, ww \in BOOLEAN :
           Search(p, cs, re, ww)
    \/ NextMatch
    \/ PreviousMatch
    \/ Clear

SpecSearch == InitSearch /\ [][NextSearch]_vars

-----------------------------------------------------------------------------
(* Specification SpecQuery: searches on a SearchService, each followed by   *)
(* any number of needs_research queries                                     *)

QueryPatterns == {<<>>, <<"a">>, <<"a", "a">>}

NextQuery ==
    \/ \E p \in QueryPatterns, cs \in BOOLEAN, re \in BOOLEAN, ww \in BOOLEAN :
           Search(p, cs, re, ww)
    \/ Clear
    \/ \E p \in QueryPatterns, cs \in BOOLEAN, re \in BOOLEAN, ww \in BOOLEAN :
           NeedsResearch(p, cs, re, ww)

SpecQuery == InitSearch /\ [][NextQuery]_vars

(* Specification SpecHeldList: a caller keeps the list get_matches() handed  *)
(* out while the service goes on searching and clearing.  get_matches       *)
(* returns self._matches, the service's own list object: what the caller    *)
(* holds is that object, and its contents are the service's matches.        *)

get_matches(s) == s.matches

HeldList == get_matches(Svc)

GetMatches ==
    /\ returned' = [held |-> TRUE, contents |-> get_matches(Svc)]
    /\ lastOp' = "get_matches"
    /\ ret' = Len(get_matches(Svc))
    /\ UNCHANGED <<svcVars, nav, args, doc, readOnly, layers, host, popup,
                   textCursor, current_line_highlight_enabled, scan, raised,
                   applyCalls, setCalls, overlay, hover, modelSearch>>

NextHeldList ==
    \/ \E p \in QueryPatterns, cs \in BOOLEAN, re \in BOOLEAN, ww \in BOOLEAN :
           Search(p, cs, re, ww)
    \/ Clear
    \/ GetMatches

SpecHeldList == InitSearch /\ [][NextHeldList]_vars

-----------------------------------------------------------------------------
(* Specification SpecScan: one search() call at a time, its scan loop taken *)
(* one iteration per step.                                                  *)

ScanDocs == Docs \cup {LongDoc}

ScanPatterns(d) == IF Len(d) > MaxDocLen THEN {<<"a">>} ELSE Patterns

ScanFlags(d) == IF Len(d) > MaxDocLen THEN {FALSE} ELSE BOOLEAN

InitScan == \E d \in ScanDocs : ServicesInit(d)

ScanFrame ==
    UNCHANGED <<doc, readOnly, layers, host, popup, textCursor,
                current_line_highlight_enabled, raised, nav, args, applyCalls,
                setCalls, returned, overlay, hover, modelSearch>>

ScanLocals == [scan EXCEPT !.running = TRUE] @@ [ms |-> matches]

StepResult ==
    ScanStep(doc, last_pattern, case_sensitive, use_regex, whole_word, ScanLocals)

SetScan(st) ==
    scan' = [cur |-> st.cur, last |-> st.last, iter |-> st.iter, running |-> st.running]

ScanBegin(p, cs, re, ww) ==
    /\ ~scan.running
    /\ LET s0 == SearchReset(Svc, p, cs, re, ww) IN
       IF p = <<>>
       THEN /\ SetSvc(s0)
            /\ scan' = ScanIdle
            /\ ret' = 0
       ELSE /\ SetSvc(s0)
            /\ SetScan(ScanInit(doc, p, cs, re, ww, s0.matches))
            /\ ret' = 0
    /\ lastOp' = "search"
    /\ ScanFrame

ScanIterate ==
    /\ scan.running
    /\ StepResult.running
    /\ SetScan(StepResult)
    /\ matches' = StepResult.ms
    /\ UNCHANGED <<current_index, last_pattern, case_sensitive, use_regex,
                   whole_word, ret, lastOp>>
    /\ ScanFrame

ScanExit ==
    /\ scan.running
    /\ ~StepResult.running
    /\ SetScan(StepResult)
    /\ SetSvc(SearchFinish(Svc, StepResult.ms))
    /\ ret' = Len(StepResult.ms)
    /\ UNCHANGED lastOp
    /\ ScanFrame

NextScan ==
    \/ \E p \in ScanPatterns(doc), cs \in ScanFlags(doc),
          re \in BOOLEAN, ww \in ScanFlags(doc) : ScanBegin(p, cs, re, ww)
    \/ ScanIterate
    \/ ScanExit

SpecScan == InitScan /\ [][NextScan]_vars

-----------------------------------------------------------------------------
(* Specification SpecFaultyFind: the scan loop of search() over a find      *)
(* primitive that may return any span, inside the document or not.          *)

FaultyDocs == {<<>>, <<"a">>, <<"a", "a">>}

FoundSpans(d) ==
    {NullCursor} \cup
    {c \in {Cursor(s, e) : s \in 0..Len(d), e \in 0..(Len(d) + 2)} :
        c.start <= c.end}

InitFaultyFind == \E d \in FaultyDocs : ServicesInit(d)

FaultyBegin(re, found) ==
    /\ ~scan.running
    /\ SetSvc(SearchReset(Svc, <<"a">>, FALSE, re, FALSE))
    /\ scan' = [cur |-> found, last |-> -1, iter |-> 0, running |-> TRUE]
    /\ ret' = 0
    /\ lastOp' = "search"
    /\ ScanFrame

FaultyIterate(found) ==
    /\ scan.running
    /\ scan.iter < MaxFaultySteps
    /\ StepResult.running
    /\ SetScan([StepResult EXCEPT !.cur = found])
    /\ matches' = StepResult.ms
    /\ UNCHANGED <<current_index, last_pattern, case_sensitive, use_regex,
                   whole_word, ret, lastOp>>
    /\ ScanFrame

NextFaultyFind ==
    \/ \E re \in BOOLEAN, found \in FoundSpans(doc) : FaultyBegin(re, found)
    \/ \E found \in FoundSpans(doc) : FaultyIterate(found)
    \/ ScanExit

SpecFaultyFind == InitFaultyFind /\ [][NextFaultyFind]_vars

-----------------------------------------------------------------------------
(* The model-backed SearchService (code_editor/services/search_service.py), *)
(* which keeps its state in a SearchModel.  ms is the record modelSearch.   *)

MAX_ITERATIONS == 10000

clear_matches(m) == [m EXCEPT !.matches = <<>>, !.current_index = -1]

set_matches(m, found) ==
    [m EXCEPT !.matches = found,
              !.current_index = IF found # <<>> THEN 0 ELSE -1]

match_count(m) == Len(m.matches)

(* search() up to the call of _find_all_matches *)
ModelSearchEnter(ms, p, cs, re, ww) ==
    LET m0 == clear_matches([ms.model EXCEPT !.pattern = p,
                                             !.case_sensitive = cs,
                                             !.use_regex = re,
                                             !.whole_word = ww])
    IN
    IF p = <<>>
    THEN [ModelSearchInit EXCEPT !.model = m0]
    ELSE [ModelSearchInit EXCEPT !.model = m0,
                                 !.mode = IF re THEN "regex" ELSE "plain"]

(* search() from the return of _find_all_matches on *)
ModelSearchLeave(ms) ==
    [ms EXCEPT !.model = set_matches(@, ms.found), !.mode = "idle"]

(* QTextCursor.movePosition(NextCharacter) *)
movePositionNextCharacter(d, c) ==
    IF Position(c) < Len(d)
    THEN Cursor(Position(c) + 1, Position(c) + 1)
    ELSE c

(* One pass of the loop of _find_plain_matches, c being what find returned; *)
(* mode "done" is the return statement reached.                            *)
find_plain_matches_pass(d, ms, c) ==
    LET called == [ms EXCEPT !.cur = c, !.calls = @ + 1] IN
    IF c.null THEN [called EXCEPT !.mode = "done"]
    ELSE IF Position(c) = ms.last THEN [called EXCEPT !.mode = "done"]
    ELSE IF Position(c) >= characterCount(d) THEN [called EXCEPT !.mode = "done"]
    ELSE [called EXCEPT !.found = Append(@, from_cursor(d, c)),
                        !.last  = Position(c),
                        !.iter  = @ + 1]

(* One pass of the loop of _find_regex_matches, c being what find returned *)
find_regex_matches_pass(d, ms, c) ==
    LET called == [ms EXCEPT !.cur = c, !.calls = @ + 1] IN
    IF c.null THEN [called EXCEPT !.mode = "done"]
    ELSE IF Position(c) = ms.last
         THEN IF Position(movePositionNextCharacter(d, c)) = Position(c)
              THEN [called EXCEPT !.mode = "done"]
              ELSE [called EXCEPT !.cur = movePositionNextCharacter(d, c)]
    ELSE IF Position(c) >= characterCount(d) THEN [called EXCEPT !.mode = "done"]
    ELSE [called EXCEPT !.found = Append(@, from_cursor(d, c)),
                        !.last  = Position(c),
                        !.iter  = @ + 1]

(* The except clause of _find_regex_matches: pass, then return matches *)
find_regex_matches_except(ms) ==
    [ms EXCEPT !.raised = TRUE, !.mode = "done"]

-----------------------------------------------------------------------------
(* Specification SpecModelSearch: one search() call at a time on the        *)
(* model-backed SearchService, its loop taken one pass per step.            *)

InitModelSearch == \E d \in ScanDocs : ServicesInit(d)

ModelFrame ==
    UNCHANGED <<doc, readOnly, svcVars, layers, host, popup, textCursor,
                current_line_highlight_enabled, scan, nav, args, applyCalls,
                setCalls, returned, overlay, hover>>

ModelScanning == modelSearch.mode \in {"regex", "plain"}

ModelFound ==
    DocumentFind(doc, modelSearch.model.pattern, modelSearch.mode = "regex",
                 modelSearch.cur, modelSearch.model.case_sensitive,
                 modelSearch.model.whole_word)

ModelSearchCall(p, cs, re, ww) ==
    /\ modelSearch.mode = "idle"
    /\ modelSearch' = ModelSearchEnter(modelSearch, p, cs, re, ww)
    /\ ret' = 0
    /\ raised' = "none"
    /\ lastOp' = "model_search"
    /\ ModelFrame

ModelLoopPass ==
    /\ ModelScanning
    /\ modelSearch.iter < MAX_ITERATIONS
    /\ modelSearch' =
           IF modelSearch.mode = "regex"
           THEN find_regex_matches_pass(doc, modelSearch, ModelFound)
           ELSE find_plain_matches_pass(doc, modelSearch, ModelFound)
    /\ UNCHANGED <<ret, raised, lastOp>>
    /\ ModelFrame

ModelLoopEnd ==
    /\ ModelScanning
    /\ modelSearch.iter >= MAX_ITERATIONS
    /\ modelSearch' = [modelSearch EXCEPT !.mode = "done"]
    /\ UNCHANGED <<ret, raised, lastOp>>
    /\ ModelFrame

(* QRegExp() or document.find raising inside the try block *)
ModelFindRaises ==
    /\ modelSearch.mode = "regex"
    /\ modelSearch.iter < MAX_ITERATIONS
    /\ modelSearch' = find_regex_matches_except(modelSearch)
    /\ UNCHANGED <<ret, raised, lastOp>>
    /\ ModelFrame

ModelSearchReturn ==
    /\ modelSearch.mode = "done"
    /\ modelSearch' = ModelSearchLeave(modelSearch)
    /\ ret' = match_count(modelSearch'.model)
    /\ UNCHANGED <<raised, lastOp>>
    /\ ModelFrame

NextModelSearch ==
    \/ \E p \in ScanPatterns(doc), cs \in ScanFlags(doc),
          re \in BOOLEAN, ww \in ScanFlags(doc) : ModelSearchCall(p, cs, re, ww)
    \/ ModelLoopPass
    \/ ModelLoopEnd
    \/ ModelFindRaises
    \/ ModelSearchReturn

SpecModelSearch == InitModelSearch /\ [][NextModelSearch]_vars

-----------------------------------------------------------------------------
(* Specification SpecModelStall: the loops of the model-backed service over *)
(* a find primitive that may stall, returning once more an empty match at   *)
(* the position of the match stored last.                                   *)

StalledCursor == Cursor(modelSearch.last, modelSearch.last)

InitModelStall == \E d \in FaultyDocs : ServicesInit(d)

ModelFindStalls ==
    /\ ModelScanning
    /\ modelSearch.iter < MAX_ITERATIONS
    /\ modelSearch.last >= 0
    /\ modelSearch.calls <= MAX_ITERATIONS
    /\ modelSearch' =
           IF modelSearch.mode = "regex"
           THEN find_regex_matches_pass(doc, modelSearch, StalledCursor)
           ELSE find_plain_matches_pass(doc, modelSearch, StalledCursor)
    /\ UNCHANGED <<ret, raised, lastOp>>
    /\ ModelFrame

NextModelStall ==
    \/ \E re \in BOOLEAN : ModelSearchCall(<<"a">>, FALSE, re, FALSE)
    \/ ModelLoopPass
    \/ ModelFindStalls
    \/ ModelSearchReturn

SpecModelStall == InitModelStall /\ [][NextModelStall]_vars

-----------------------------------------------------------------------------
(* CodeEditor: the handlers, as operators on the record e of the editor's   *)
(* state (the document, both services, the host's selections, the popup).   *)

Ed ==
    [doc      |-> doc,
     readOnly |-> readOnly,
     svc      |-> Svc,
     layers   |-> layers,
     host     |-> host,
     popup    |-> popup,
     tc       |-> textCursor,
     clh      |-> current_line_highlight_enabled,
     raised   |-> raised,
     ret      |-> ret,
     applies  |-> applyCalls,
     sets     |-> setCalls,
     ov       |-> overlay,
     hover    |-> hover]

SetEd(e) ==
    /\ doc' = e.doc
    /\ readOnly' = e.readOnly
    /\ SetSvc(e.svc)
    /\ layers' = e.layers
    /\ host' = e.host
    /\ popup' = e.popup
    /\ textCursor' = e.tc
    /\ current_line_highlight_enabled' = e.clh
    /\ raised' = e.raised
    /\ ret' = e.ret
    /\ applyCalls' = e.applies
    /\ setCalls' = e.sets
    /\ overlay' = e.ov
    /\ hover' = e.hover

MatchCursor(m) == m.cursor

setExtraSelections(e, selections) ==
    [e EXCEPT !.host = selections, !.sets = @ + 1]

ApplyE(e) == [setExtraSelections(e, apply(e.layers)) EXCEPT !.applies = @ + 1]

ClearLayerERepaint(e, layer) ==
    setExtraSelections([e EXCEPT !.layers = clear_layer(@, layer)],
                       apply(clear_layer(e.layers, layer)))

ClearLayerE(e, layer) == [e EXCEPT !.layers = clear_layer(@, layer)]

highlight_current_line(e) ==
    LET e1 == ClearLayerE(e, "CURRENT_LINE") IN
    IF ~e.readOnly /\ e.clh
    THEN ApplyE([e1 EXCEPT !.layers =
                    add_decoration(@, "CURRENT_LINE", e.tc, "current_line", TRUE)])
    ELSE e1

on_cursor_position_changed(e) ==
    IF e.clh THEN highlight_current_line(e) ELSE e

(* QPlainTextEdit.setTextCursor: cursorPositionChanged is emitted when the  *)
(* position changes.                                                        *)
setTextCursor(e, c) ==
    LET e1 == [e EXCEPT !.tc = c] IN
    IF Position(c) # Position(e.tc) THEN on_cursor_position_changed(e1) ELSE e1

clear_decorations(e, decoration_type) ==
    LET type_to_layer ==
            [search        |-> "SEARCH_MATCHES",
             current_match |-> "CURRENT_MATCH",
             current_line  |-> "CURRENT_LINE",
             custom        |-> "CUSTOM"]
    IN
    IF decoration_type # ""
    THEN IF decoration_type \in DOMAIN type_to_layer
         THEN ApplyE(ClearLayerE(e, type_to_layer[decoration_type]))
         ELSE ApplyE(e)
    ELSE ApplyE([e EXCEPT !.layers = clear_all(@)])

update_match_count(pp, current, total) ==
    [pp EXCEPT !.label =
        IF total > 0
        THEN [text |-> "of", current |-> current, total |-> total, red |-> FALSE]
        ELSE [text |-> "No results", current |-> 0, total |-> 0,
              red |-> pp.text # <<>>]]

UpdatePopup(e, current, total) ==
    IF e.popup.exists
    THEN [e EXCEPT !.popup = update_match_count(@, current, total)]
    ELSE e

HighlightMatchesFirstOnly(e) ==
    [e EXCEPT !.layers["SEARCH_MATCHES"] =
        @ \o [i \in 1..(IF e.svc.matches = <<>> THEN 0 ELSE 1) |->
                Decoration(MatchCursor(e.svc.matches[i]), "search_match", FALSE)]]

HighlightMatches(e) ==
    [e EXCEPT !.layers["SEARCH_MATCHES"] =
        @ \o [i \in 1..Len(e.svc.matches) |->
                Decoration(MatchCursor(e.svc.matches[i]), "search_match", FALSE)]]

HighlightCurrentMatch(e) ==
    LET current_match == get_current_match(e.svc) IN
    IF current_match # <<>>
    THEN setTextCursor(
            [e EXCEPT !.layers = add_decoration(@, "CURRENT_MATCH",
                MatchCursor(current_match[1]), "current_match", FALSE)],
            MatchCursor(current_match[1]))
    ELSE e

ClearSearchLayers(e) ==
    ClearLayerE(ClearLayerE(e, "SEARCH_MATCHES"), "CURRENT_MATCH")

RestoreLabel(e) ==
    UpdatePopup(e, e.svc.current_index + 1, Len(e.svc.matches))

RestoreCleared(e) ==
    IF e.svc.matches = <<>> THEN ApplyE(e)
    ELSE RestoreLabel(ApplyE(HighlightCurrentMatch(HighlightMatches(e))))

restore_search_highlights(e) == RestoreCleared(ClearSearchLayers(e))

SearchE(e, p, cs, re, ww) ==
    [e EXCEPT !.svc = search(@, e.doc, p, cs, re, ww)]

ShowSearchResults(e) ==
    IF Len(e.svc.matches) > 0
    THEN UpdatePopup(ApplyE(HighlightCurrentMatch(HighlightMatches(e))),
                     1, Len(e.svc.matches))
    ELSE UpdatePopup(ApplyE(e), 0, 0)

on_search_requested_keep_layers(e, pattern, cs, re, ww) ==
    IF pattern = <<>>
    THEN UpdatePopup(ApplyE(SearchE(e, <<>>, cs, re, ww)), 0, 0)
    ELSE IF ~needs_research(e.svc, pattern, cs, re, ww)
    THEN restore_search_highlights(e)
    ELSE ShowSearchResults(SearchE(e, pattern, cs, re, ww))

on_search_requested_empty_unrecorded(e, pattern, cs, re, ww) ==
    IF pattern = <<>>
    THEN UpdatePopup(ApplyE(ClearSearchLayers(e)), 0, 0)
    ELSE IF ~needs_research(e.svc, pattern, cs, re, ww)
    THEN restore_search_highlights(e)
    ELSE ShowSearchResults(SearchE(ClearSearchLayers(e), pattern, cs, re, ww))

on_search_requested(e, pattern, cs, re, ww) ==
    IF pattern = <<>>
    THEN UpdatePopup(ApplyE(SearchE(ClearSearchLayers(e), <<>>, cs, re, ww)), 0, 0)
    ELSE IF ~needs_research(e.svc, pattern, cs, re, ww)
    THEN restore_search_highlights(e)
    ELSE ShowSearchResults(SearchE(ClearSearchLayers(e), pattern, cs, re, ww))

IndexOfMatch(ms, m) ==
    IF \E i \in 1..Len(ms) : ms[i] = m
    THEN (CHOOSE i \in 1..Len(ms) :
              ms[i] = m /\ \A j \in 1..(i - 1) : ms[j] # m)
    ELSE 0

ShowCurrentIndex(e, match) ==
    UpdatePopup(e, IndexOfMatch(e.svc.matches, match), Len(e.svc.matches))

update_current_match_keep_previous(e, match) ==
    ShowCurrentIndex(
        setTextCursor(
            ApplyE([e EXCEPT !.layers =
                        add_decoration(@, "CURRENT_MATCH", MatchCursor(match),
                                       "current_match", FALSE)]),
            MatchCursor(match)),
        match)

update_current_match(e, match) ==
    ShowCurrentIndex(
        setTextCursor(
            ApplyE([ClearLayerE(e, "CURRENT_MATCH") EXCEPT !.layers =
                        add_decoration(@, "CURRENT_MATCH", MatchCursor(match),
                                       "current_match", FALSE)]),
            MatchCursor(match)),
        match)

ShowReturnedMatch(e) ==
    IF e.svc.matches = <<>> THEN e
    ELSE update_current_match(e, e.svc.matches[e.svc.current_index + 1])

on_next_match(e) == ShowReturnedMatch([e EXCEPT !.svc = next_match(@)])

on_previous_match(e) == ShowReturnedMatch([e EXCEPT !.svc = previous_match(@)])

on_search_closed(e) ==
    [ApplyE(ClearSearchLayers(e)) EXCEPT
        !.popup.visible = IF e.popup.exists THEN FALSE ELSE @]

(* SearchService defines neither replace_current nor replace_all: the call  *)
(* raises AttributeError and the handler is left at that point.             *)
on_replace_current(e, replacement) ==
    IF e.readOnly THEN e
    ELSE [e EXCEPT !.raised = "AttributeError"]

on_replace_all_unguarded(e, replacement) ==
    [e EXCEPT !.raised = "AttributeError"]

on_replace_all(e, replacement) ==
    IF e.readOnly THEN e
    ELSE [e EXCEPT !.raised = "AttributeError"]

ShowApiResults(e) ==
    [ApplyE(IF Len(e.svc.matches) > 0
            THEN HighlightMatches(ClearLayerE(e, "SEARCH_MATCHES"))
            ELSE ClearLayerE(e, "SEARCH_MATCHES"))
        EXCEPT !.ret = Len(e.svc.matches)]

editor_search(e, pattern, regex) ==
    ShowApiResults(SearchE(e, pattern, FALSE, regex, FALSE))

clear_search(e) ==
    clear_decorations([e EXCEPT !.svc = clear(@)], "search")

(* SearchPopup *)

popup_on_search(e) ==
    LET e1 == [e EXCEPT !.popup.last_pattern = e.popup.text] IN
    on_search_requested(e1, e1.popup.text, e1.popup.cs, e1.popup.re, e1.popup.ww)

setText(e, p) ==
    IF e.popup.text # p
    THEN popup_on_search([e EXCEPT !.popup.text = p])
    ELSE e

set_pattern(e, p) ==
    [setText(e, p) EXCEPT !.popup.last_pattern = p]

set_case_sensitive(e, v) ==
    IF e.popup.cs # v THEN popup_on_search([e EXCEPT !.popup.cs = v]) ELSE e

set_use_regex(e, v) ==
    IF e.popup.re # v THEN popup_on_search([e EXCEPT !.popup.re = v]) ELSE e

set_whole_word(e, v) ==
    IF e.popup.ww # v THEN popup_on_search([e EXCEPT !.popup.ww = v]) ELSE e

RestorePopupText(e) ==
    IF e.popup.last_pattern # <<>> THEN setText(e, e.popup.last_pattern) ELSE e

show_popup(e) ==
    [RestorePopupText(e) EXCEPT !.popup.replace_mode = FALSE, !.popup.visible = TRUE]

hide_popup(e) == [e EXCEPT !.popup.visible = FALSE]

EnsurePopup(e) ==
    IF e.popup.exists THEN e ELSE [e EXCEPT !.popup.exists = TRUE]

RestoreCaseSensitive(e) == set_case_sensitive(e, e.svc.case_sensitive)

RestoreUseRegex(e) == set_use_regex(e, e.svc.use_regex)

RestoreWholeWord(e) == set_whole_word(e, e.svc.whole_word)

RestoreOrSearch(e, last_pattern_) ==
    IF e.svc.matches # <<>>
    THEN restore_search_highlights(e)
    ELSE on_search_requested(e, last_pattern_, e.svc.case_sensitive,
                             e.svc.use_regex, e.svc.whole_word)

RestoreLastSearch(e, last_pattern_) ==
    IF last_pattern_ # <<>>
    THEN RestoreOrSearch(
            RestoreWholeWord(RestoreUseRegex(RestoreCaseSensitive(
                set_pattern(e, last_pattern_)))),
            last_pattern_)
    ELSE e

ShowExistingPopup(e) == show_popup(RestoreLastSearch(e, e.svc.last_pattern))

hide_overlay(e) == [e EXCEPT !.ov.visible = FALSE]

HideOverlayForPopup(e) ==
    IF e.ov.exists /\ e.ov.visible THEN hide_overlay(e) ELSE e

show_search_popup(e) == ShowExistingPopup(EnsurePopup(HideOverlayForPopup(e)))

hide_search_popup(e) ==
    IF e.popup.exists THEN hide_popup(e) ELSE e

keyPressEscape(e) ==
    IF e.popup.exists /\ e.popup.visible THEN hide_popup(e)
    ELSE IF e.ov.exists /\ e.ov.visible THEN hide_overlay(e)
    ELSE e

set_current_line_highlight_enabled(e, enabled) ==
    LET e1 == [e EXCEPT !.clh = enabled] IN
    IF enabled THEN highlight_current_line(e1)
    ELSE clear_decorations(e1, "current_line")

toggle_replace_mode(e) == [e EXCEPT !.popup.replace_mode = ~@]

EnterReplaceMode(e) ==
    IF ~e.popup.replace_mode THEN toggle_replace_mode(e) ELSE e

show_replace_popup(e) == EnterReplaceMode(show_search_popup(e))

(* GotoLineOverlay and the editor's go-to-line handlers *)

blockCount(d) == 1 + Cardinality({i \in 1..Len(d) : d[i] = NL})

BlockEnd(d, block) ==
    IF block + 1 = blockCount(d) THEN Len(d)
    ELSE (CHOOSE i \in 1..Len(d) :
              /\ d[i] = NL
              /\ Cardinality({j \in 1..i : d[j] = NL}) = block + 1) - 1

BlockStart(d, block) ==
    IF block = 0 THEN 0 ELSE BlockEnd(d, block - 1) + 1

(* CodeEditor.add_decoration, clear_decorations' companion on the CUSTOM    *)
(* layer, and the hover handlers                                            *)

add_line_decoration(e, line_number, bg_color, decoration_type) ==
    IF line_number < 0 \/ line_number >= blockCount(e.doc) THEN e
    ELSE ApplyE([e EXCEPT !.layers =
                    add_decoration(@, "CUSTOM",
                                   Cursor(BlockStart(e.doc, line_number),
                                          BlockStart(e.doc, line_number)),
                                   bg_color, TRUE)])

HoverLine(e, line_number) ==
    IF line_number >= 0
    THEN add_line_decoration(clear_decorations(e, "hover"), line_number,
                             "hover", "hover")
    ELSE clear_decorations(e, "hover")

mouseMoveEvent(e, line_number) ==
    IF e.readOnly /\ e.hover.enabled /\ line_number # e.hover.last_line
    THEN [HoverLine(e, line_number) EXCEPT !.hover.last_line = line_number]
    ELSE e

leaveEvent(e) ==
    IF e.hover.enabled
    THEN [clear_decorations(e, "hover") EXCEPT !.hover.last_line = -1]
    ELSE e

set_hover_enabled(e, enabled) ==
    IF ~enabled
    THEN clear_decorations([e EXCEPT !.hover.enabled = enabled], "hover")
    ELSE [e EXCEPT !.hover.enabled = enabled]

jump_to_line(e, line_number) ==
    LET line_num == line_number - 1 IN
    IF 0 <= line_num /\ line_num < blockCount(e.doc)
    THEN setTextCursor(e, Cursor(BlockEnd(e.doc, line_num), BlockEnd(e.doc, line_num)))
    ELSE e

ClampLine(n, max_line) ==
    IF n < 1 THEN 1 ELSE IF n > max_line THEN max_line ELSE n

overlay_on_text_changed(e, text) ==
    IF text = <<>>
    THEN [e EXCEPT !.ov.label = [kind |-> "range", line |-> e.ov.max_line]]
    ELSE [jump_to_line(e, ClampLine(text[1], e.ov.max_line)) EXCEPT
             !.ov.label = [kind |-> "ok",
                           line |-> ClampLine(text[1], e.ov.max_line)]]

overlay_setText(e, text) ==
    IF e.ov.input # text
    THEN overlay_on_text_changed([e EXCEPT !.ov.input = text], text)
    ELSE e

show_overlay(e, max_line) ==
    [overlay_setText([e EXCEPT !.ov.max_line = max_line], <<>>) EXCEPT
        !.ov.label = [kind |-> "range", line |-> max_line],
        !.ov.visible = TRUE]

overlay_on_enter(e) ==
    IF e.ov.input = <<>> THEN e
    ELSE hide_overlay(jump_to_line(e, ClampLine(e.ov.input[1], e.ov.max_line)))

overlay_on_escape(e) == hide_overlay(e)

EnsureOverlay(e) ==
    IF e.ov.exists THEN e ELSE [e EXCEPT !.ov.exists = TRUE]

HidePopupForOverlay(e) ==
    IF e.popup.exists /\ e.popup.visible THEN hide_popup(e) ELSE e

go_to_line(e) ==
    show_overlay(EnsureOverlay(HidePopupForOverlay(e)), blockCount(e.doc))

(* The host widget's own editing.  Every QTextCursor on the document (the    *)
(* editor's text cursor, the cursors kept by the matches, by the decorations *)
(* and by the host's extra selections) follows the change: a position        *)
(* inside removed text moves to where it was removed, a position at or       *)
(* after inserted text moves right by the inserted length.                   *)

AdjustPosition(pos, at, removed, added) ==
    LET afterRemove == IF pos <= at THEN pos
                       ELSE IF pos < at + removed THEN at
                       ELSE pos - removed
    IN IF afterRemove < at THEN afterRemove ELSE afterRemove + added

AdjustCursor(c, at, removed, added) ==
    IF c.null THEN c
    ELSE [c EXCEPT !.start = AdjustPosition(@, at, removed, added),
                   !.end   = AdjustPosition(@, at, removed, added)]

AdjustAll(q, at, removed, added) ==
    [i \in 1..Len(q) |->
        [q[i] EXCEPT !.cursor = AdjustCursor(@, at, removed, added)]]

ReplaceText(e, at, removed, text) ==
    [e EXCEPT
        !.doc = SubSeq(@, 1, at) \o text \o SubSeq(@, at + removed + 1, Len(@)),
        !.svc.matches = AdjustAll(@, at, removed, Len(text)),
        !.layers = [l \in DOMAIN @ |-> AdjustAll(@[l], at, removed, Len(text))],
        !.host = AdjustAll(@, at, removed, Len(text)),
        !.tc = Cursor(at + Len(text), at + Len(text))]

AfterEdit(e, oldPosition) ==
    IF Position(e.tc) # oldPosition THEN on_cursor_position_changed(e) ELSE e

(* typing text: it replaces the selection of the text cursor *)
insertText(e, text) ==
    AfterEdit(ReplaceText(e, e.tc.start, e.tc.end - e.tc.start, text),
              Position(e.tc))

(* Backspace: removes the selection, or the character before the cursor *)
deletePreviousChar(e) ==
    IF e.tc.start # e.tc.end THEN insertText(e, <<>>)
    ELSE IF e.tc.start = 0 THEN e
    ELSE AfterEdit(ReplaceText(e, e.tc.start - 1, 1, <<>>), Position(e.tc))

-----------------------------------------------------------------------------
(* Specification Spec: a CodeEditor on a document, driven through its       *)
(* public API and through the user's actions on the search popup.  Of the   *)
(* popup's three option boxes the user toggles the regex box; the replace   *)
(* row is opened with show_replace_popup.                                   *)

MaxEditorDocLen == 2

EditorDocs == UNION {[1..n -> {"a", NL}] : n \in 0..MaxEditorDocLen}

EditorPatterns == {<<>>, <<"a">>, <<"[">>}

Replacements == {<<>>, <<"A">>}

TypedTexts == {<<"a">>}

(* CodeEditor.__init__ highlights the current line through _apply_theme *)
Init ==
    \E d \in EditorDocs :
        /\ doc = d
        /\ readOnly = FALSE
        /\ matches = SvcInit.matches
        /\ current_index = SvcInit.current_index
        /\ last_pattern = SvcInit.last_pattern
        /\ case_sensitive = SvcInit.case_sensitive
        /\ use_regex = SvcInit.use_regex
        /\ whole_word = SvcInit.whole_word
        /\ layers = add_decoration(LayersInit, "CURRENT_LINE", Cursor(0, 0),
                                   "current_line", TRUE)
        /\ host = apply(layers)
        /\ popup = PopupInit
        /\ textCursor = Cursor(0, 0)
        /\ current_line_highlight_enabled = TRUE
        /\ scan = ScanIdle
        /\ raised = "none"
        /\ ret = 0
        /\ lastOp = "init"
        /\ nav = NavNone
        /\ args = <<>>
        /\ applyCalls = 0
        /\ setCalls = 0
        /\ returned = NotReturned
        /\ overlay = OverlayInit
        /\ hover = HoverInit
        /\ modelSearch = ModelSearchInit

Begin == [Ed EXCEPT !.raised = "none", !.ret = 0, !.applies = 0, !.sets = 0]

Do(op, e) ==
    /\ SetEd(e)
    /\ lastOp' = op
    /\ UNCHANGED <<scan, nav, args, returned, modelSearch>>

PopupShown == popup.exists /\ popup.visible

ShowSearchPopup ==
    Do(IF lastOp = "popup_close" THEN "reopen_search_popup" ELSE "show_search_popup",
       show_search_popup(Begin))

ShowReplacePopup == Do("show_replace_popup", show_replace_popup(Begin))

GoToLine == Do("go_to_line", go_to_line(Begin))

TypeText(text) ==
    /\ ~readOnly
    /\ Len(doc) - (textCursor.end - textCursor.start) + Len(text) <= MaxEditorDocLen
    /\ Do("edit", insertText(Begin, text))

Backspace ==
    /\ ~readOnly
    /\ textCursor.end > 0
    /\ Do("edit", deletePreviousChar(Begin))

HideSearchPopup == Do("hide_search_popup", hide_search_popup(Begin))

KeyEscape == Do("key_escape", keyPressEscape(Begin))

EditorSearch(p, regex) == Do("search", editor_search(Begin, p, regex))

ClearSearch == Do("clear_search", clear_search(Begin))

SetReadOnly(b) ==
    /\ readOnly # b
    /\ Do("setReadOnly", [Begin EXCEPT !.readOnly = b])

PopupType(p) ==
    /\ PopupShown
    /\ p # popup.text
    /\ Do("popup_search", setText(Begin, p))

PopupToggleRegex ==
    /\ PopupShown
    /\ Do("popup_search", set_use_regex(Begin, ~popup.re))

PopupNext ==
    /\ PopupShown
    /\ Do("popup_next", on_next_match(Begin))

PopupPrevious ==
    /\ PopupShown
    /\ Do("popup_previous", on_previous_match(Begin))

PopupClose ==
    /\ PopupShown
    /\ Do("popup_close", on_search_closed(Begin))

PopupReplace(r) ==
    /\ PopupShown
    /\ popup.replace_mode
    /\ Do("replace_current", on_replace_current(Begin, r))

PopupReplaceAll(r) ==
    /\ PopupShown
    /\ popup.replace_mode
    /\ Do("replace_all", on_replace_all(Begin, r))

Next ==
    \/ ShowSearchPopup
    \/ ShowReplacePopup
    \/ HideSearchPopup
    \/ KeyEscape
    \/ \E p \in EditorPatterns, regex \in BOOLEAN : EditorSearch(p, regex)
    \/ ClearSearch
    \/ \E b \in BOOLEAN : SetReadOnly(b)
    \/ \E p \in EditorPatterns : PopupType(p)
    \/ PopupToggleRegex
    \/ PopupNext
    \/ PopupPrevious
    \/ PopupClose
    \/ \E r \in Replacements : PopupReplace(r)
    \/ \E r \in Replacements : PopupReplaceAll(r)

Spec == Init /\ [][Next]_vars

(* The editor with the user editing the buffer between search operations *)

NextEdit ==
    \/ ShowSearchPopup
    \/ KeyEscape
    \/ \E p \in EditorPatterns : PopupType(p)
    \/ PopupNext
    \/ PopupClose
    \/ \E text \in TypedTexts : TypeText(text)
    \/ Backspace

SpecEdit == Init /\ [][NextEdit]_vars

(* The editor with the mouse hovering over a read-only buffer that also     *)
(* carries decorations added through add_decoration                         *)

HoverLines == 0..MaxEditorDocLen

MouseMove(line) ==
    /\ line < blockCount(doc)
    /\ Len(layers["CUSTOM"]) < MaxDecorations
    /\ Do("mouseMoveEvent", mouseMoveEvent(Begin, line))

MouseLeave == Do("leaveEvent", leaveEvent(Begin))

SetHoverEnabled(b) ==
    /\ hover.enabled # b
    /\ Do("set_hover_enabled", set_hover_enabled(Begin, b))

AddLineDecoration(line) ==
    /\ Len(layers["CUSTOM"]) < MaxDecorations
    /\ Do("add_decoration", add_line_decoration(Begin, line, "custom", "custom"))

ClearCustomDecorations == Do("clear_decorations", clear_decorations(Begin, "custom"))

NextHover ==
    \/ \E b \in BOOLEAN : SetReadOnly(b)
    \/ \E line \in HoverLines : MouseMove(line)
    \/ MouseLeave
    \/ \E b \in BOOLEAN : SetHoverEnabled(b)
    \/ \E line \in HoverLines : AddLineDecoration(line)
    \/ ClearCustomDecorations

SpecHover == Init /\ [][NextHover]_vars

(* The editor with the go-to-line overlay in use *)

LineInputs == {<<>>} \cup {<<n>> : n \in 0..MaxLineInput}

OverlayShown == overlay.exists /\ overlay.visible

OverlayType(text) ==
    /\ OverlayShown
    /\ text # overlay.input
    /\ Do("goto_type", overlay_setText(Begin, text))

OverlayEnter ==
    /\ OverlayShown
    /\ Do("goto_enter", overlay_on_enter(Begin))

OverlayEscape ==
    /\ OverlayShown
    /\ Do("goto_escape", overlay_on_escape(Begin))

NextGoto ==
    \/ GoToLine
    \/ \E text \in LineInputs : OverlayType(text)
    \/ OverlayEnter
    \/ OverlayEscape
    \/ KeyEscape
    \/ ShowSearchPopup
    \/ \E p \in EditorPatterns : PopupType(p)

SpecGoto == Init /\ [][NextGoto]_vars

-----------------------------------------------------------------------------
(* Properties *)

\* C1: after apply(), the list handed to the host is the concatenation of the
\* current layer contents in the order CUSTOM, CURRENT_LINE, SEARCH_MATCHES,
\* CURRENT_MATCH, each layer in insertion order.
C1_ApplyHandsFlattenedLayers ==
    LET flat == layers["CUSTOM"] \o layers["CURRENT_LINE"]
                    \o layers["SEARCH_MATCHES"] \o layers["CURRENT_MATCH"]
    IN
    lastOp = "apply" =>
        /\ Len(host) = Len(flat)
        /\ \A i \in 1..Len(flat) :
              /\ host[i].cursor = flat[i].cursor
              /\ host[i].background = flat[i].bg_color
              /\ host[i].fullWidth = flat[i].full_width

C1_Witness ==
    /\ lastOp = "apply"
    /\ Len(layers["CUSTOM"]) = 1
    /\ Len(layers["CURRENT_MATCH"]) = 2
    /\ layers["CURRENT_MATCH"][1] # layers["CURRENT_MATCH"][2]
    /\ layers["CUSTOM"][1] # layers["CURRENT_MATCH"][1]
    /\ Len(host) = 3

\* C2: the scan loop of search() takes at most 10000 iterations and stores at
\* most 10000 matches; every pass through the loop that stays in it counts one
\* iteration, so the loop ends for every pattern, flags and document.
C2_ScanBounded ==
    /\ [](scan.iter <= max_iterations /\ Len(matches) <= max_iterations)
    /\ [][(scan.running /\ scan'.running) => scan'.iter = scan.iter + 1]_vars

C2_Witness ==
    /\ lastOp = "search"
    /\ ~scan.running
    /\ use_regex
    /\ last_pattern = <<".", "*">>
    /\ Len(doc) > 0
    /\ matches # <<>>
    /\ ~scan.cur.null
    /\ scan.cur.start = scan.cur.end
    /\ Position(scan.cur) = scan.last

\* C3: with n > 0 matches, n consecutive next_match() calls, and n consecutive
\* previous_match() calls, bring the current index back to where the run began.
C3_NavigationWraps ==
    (nav.kind \in {"next", "previous"} /\ nav.count = Len(matches)) =>
        current_index = nav.start

C3_Witness ==
    /\ nav.kind = "previous"
    /\ Len(matches) = 3
    /\ nav.count = 3
    /\ nav.start = 1
    /\ current_index = 1

\* C4: after any sequence of search, next_match, previous_match and clear the
\* current index is -1 exactly when the match list is empty and otherwise lies
\* in 0..len(matches)-1.
C4_IndexValid ==
    /\ (current_index = -1) <=> (matches = <<>>)
    /\ matches # <<>> => (0 <= current_index /\ current_index <= Len(matches) - 1)

C4_Witness ==
    /\ lastOp = "clear"
    /\ current_index = -1
    /\ matches = <<>>
    /\ last_pattern = <<"a">>
    /\ \E i \in 1..Len(doc) : doc[i] = "a"

\* C6: a search() with the criteria of the search() call just before it, the
\* document not edited in between, leaves the same (start, end, text) sequence
\* and the same current index.
C6_IdempotentRescan ==
    [][lastOp' = "search_again" =>
          (matches' = matches /\ current_index' = current_index)]_vars

C6_Witness ==
    /\ lastOp = "search_again"
    /\ Len(matches) >= 2
    /\ current_index = 0

\* C5 as stated: a plain-text search for a non-empty literal that occurs k
\* times without overlap returns exactly k matches whose starts are the
\* occurrences in strictly ascending order, for any document and literal.
C5_PlainFindsEveryOccurrence ==
    LET s   == last_pattern
        occ == {i \in 0..(Len(doc) - Len(s)) :
                    \A j \in 1..Len(s) : CharEq(doc[i + j], s[j], case_sensitive)}
        k   == Cardinality(occ)
    IN
    (/\ lastOp = "search"
     /\ ~scan.running
     /\ ~use_regex
     /\ ~whole_word
     /\ s # <<>>
     /\ \A i \in occ : \A g \in 1..(Len(s) - 1) : i + g \notin occ) =>
        /\ ret = k
        /\ Len(matches) = k
        /\ \A n \in 1..Len(matches) : matches[n].start \in occ
        /\ \A n \in 1..(Len(matches) - 1) : matches[n].start < matches[n + 1].start

\* C5 amended: a plain-text search (whole-word off) for a non-empty literal
\* without a line break, occurring k times without overlap under the call's
\* case sensitivity, returns min(k, 10000) matches: the first occurrences in
\* strictly ascending order of start, each spanning the literal's length.
C5_PlainFindsFirstOccurrences ==
    LET s   == last_pattern
        occ == {i \in 0..(Len(doc) - Len(s)) :
                    \A j \in 1..Len(s) : CharEq(doc[i + j], s[j], case_sensitive)}
        k   == Cardinality(occ)
        n   == Len(matches)
    IN
    (/\ lastOp = "search"
     /\ ~scan.running
     /\ ~use_regex
     /\ ~whole_word
     /\ s # <<>>
     /\ \A j \in 1..Len(s) : s[j] # NL
     /\ \A i \in occ : \A g \in 1..(Len(s) - 1) : i + g \notin occ) =>
        /\ n = (IF k <= max_iterations THEN k ELSE max_iterations)
        /\ ret = n
        /\ \A m \in 1..n :
              /\ matches[m].start \in occ
              /\ matches[m].end = matches[m].start + Len(s)
        /\ \A m \in 1..(n - 1) : matches[m].start < matches[m + 1].start
        /\ n > 0 => Cardinality({o \in occ : o <= matches[n].start}) = n

C5_Witness ==
    /\ lastOp = "search"
    /\ ~scan.running
    /\ ~use_regex
    /\ ~whole_word
    /\ ~case_sensitive
    /\ last_pattern = <<"a">>
    /\ Len(doc) >= 3
    /\ Len(matches) = Len(doc)
    /\ ret = Len(doc)
    /\ matches[2].text = <<"A">>

\* C7: replace-all with replacement r on a writable editor that has matches
\* completes without an error, replaces every current match (highest start first so that earlier
\* offsets stay valid), returns the number replaced, and leaves the match list
\* empty and the current index at -1.
C7_ReplaceAllReplacesEveryMatch ==
    [][LET RECURSIVE Substituted(_, _, _)
           Substituted(d, ms, r) ==
               IF ms = <<>> THEN d
               ELSE LET m == ms[Len(ms)] IN
                    Substituted(
                        SubSeq(d, 1, m.start) \o r \o SubSeq(d, m.end + 1, Len(d)),
                        SubSeq(ms, 1, Len(ms) - 1), r)
       IN
       (lastOp' = "replace_all" /\ ~readOnly /\ matches # <<>>) =>
           /\ raised' = "none"
           /\ \E r \in Replacements : doc' = Substituted(doc, matches, r)
           /\ ret' = Len(matches)
           /\ matches' = <<>>
           /\ current_index' = -1]_vars

\* C8: a search with the empty pattern issued after a non-empty search that
\* produced results, through the popup handler or through CodeEditor.search,
\* returns 0, empties the match list, and leaves the SEARCH_MATCHES and
\* CURRENT_MATCH layers empty and applied to the host.
C8_EmptyPatternClearsSearchLayers ==
    [][(/\ matches # <<>>
        /\ last_pattern # <<>>
        /\ lastOp' \in {"search", "popup_search"}
        /\ last_pattern' = <<>>) =>
          /\ ret' = 0
          /\ matches' = <<>>
          /\ layers'["SEARCH_MATCHES"] = <<>>
          /\ layers'["CURRENT_MATCH"] = <<>>
          /\ \A i \in 1..Len(host') :
                host'[i].background \notin {"search_match", "current_match"}]_vars

\* C9: a popup search request in regex mode with a syntactically invalid
\* pattern completes without an error and ends with no matches, empty
\* SEARCH_MATCHES and CURRENT_MATCH layers, no search highlight on the host,
\* and the popup label in its "No results" state.
C9_InvalidRegexYieldsNoResults ==
    (lastOp = "popup_search" /\ use_regex /\ ~RegexValid(last_pattern)) =>
        /\ raised = "none"
        /\ matches = <<>>
        /\ current_index = -1
        /\ layers["SEARCH_MATCHES"] = <<>>
        /\ layers["CURRENT_MATCH"] = <<>>
        /\ \A i \in 1..Len(host) :
              host[i].background \notin {"search_match", "current_match"}
        /\ popup.label.text = "No results"
        /\ popup.label.total = 0

C9_Witness ==
    /\ lastOp = "popup_search"
    /\ use_regex
    /\ last_pattern = <<"[">>
    /\ popup.text = <<"[">>
    /\ popup.visible
    /\ \E i \in 1..Len(doc) : doc[i] = "a"
    /\ popup.label.text = "No results"
    /\ popup.label.red

\* C10: replace-current and replace-all triggered while the editor is
\* read-only raise nothing and leave the document, the match list, the current
\* index and every decoration layer unchanged.
C10_ReadOnlyReplaceIsNoOp ==
    [][(readOnly /\ lastOp' \in {"replace_current", "replace_all"}) =>
          /\ raised' = "none"
          /\ UNCHANGED <<doc, matches, current_index, layers, host>>]_vars

C10_Witness ==
    /\ lastOp = "replace_all"
    /\ readOnly
    /\ raised = "none"
    /\ matches # <<>>
    /\ layers["SEARCH_MATCHES"] # <<>>
    /\ layers["CURRENT_MATCH"] # <<>>

\* C13: needs_research(pattern, case_sensitive, use_regex, whole_word) returns
\* true exactly when one of the four values differs from the criteria recorded
\* by the last search() or the match list is empty, and changes no state.
C13_NeedsResearchIffChanged ==
    [][\A p \in QueryPatterns, cs \in BOOLEAN, re \in BOOLEAN, ww \in BOOLEAN :
          NeedsResearch(p, cs, re, ww) =>
              /\ (ret' = 1) <=> ~(/\ p = last_pattern
                                  /\ cs = case_sensitive
                                  /\ re = use_regex
                                  /\ ww = whole_word
                                  /\ matches # <<>>)
              /\ ret' \in {0, 1}
              /\ UNCHANGED svcVars]_vars

C13_Witness ==
    /\ lastOp = "needs_research"
    /\ ret = 0
    /\ Len(matches) >= 2
    /\ last_pattern = <<"a">>
    /\ whole_word
    /\ ~use_regex

\* C18: every search(pattern, case_sensitive, use_regex, whole_word) records
\* its four arguments as the last criteria, for an empty pattern, a scan
\* without matches and a scan with matches alike, and leaves the current index
\* at 0 when the result is non-empty and at -1 otherwise.
C18_SearchRecordsCriteria ==
    lastOp \in {"search", "search_again"} =>
        /\ <<last_pattern, case_sensitive, use_regex, whole_word>> = args
        /\ current_index = (IF matches # <<>> THEN 0 ELSE -1)
        /\ ret = Len(matches)

C18_Witness ==
    /\ lastOp = "search"
    /\ args = <<<<>>, TRUE, TRUE, TRUE>>
    /\ last_pattern = <<>>
    /\ case_sensitive
    /\ use_regex
    /\ whole_word
    /\ current_index = -1
    /\ \E i \in 1..Len(doc) : doc[i] = "a"

\* C19: clear_layer(L) empties layer L and leaves every other layer as it
\* was; clear_all() empties all four layers; neither changes the list the
\* host displays.
C19_ClearTouchesOnlyItsLayer ==
    [][/\ \A layer \in DecorationLayer :
             ClearLayer(layer) =>
                 /\ layers'[layer] = <<>>
                 /\ \A other \in DecorationLayer \ {layer} :
                        layers'[other] = layers[other]
                 /\ host' = host
       /\ ClearAll =>
             /\ \A layer \in DecorationLayer : layers'[layer] = <<>>
             /\ host' = host]_vars

C19_Witness ==
    /\ lastOp = "clear_layer"
    /\ layers["SEARCH_MATCHES"] = <<>>
    /\ layers["CURRENT_MATCH"] # <<>>
    /\ layers["CUSTOM"] # <<>>
    /\ Len(host) = 3

\* C20: add_decoration(L, range, color, full_width) appends exactly one
\* decoration at the end of layer L, also when an equal decoration is already
\* there, and leaves the other layers unchanged.
C20_AddAppendsOne ==
    [][\A layer \in DecorationLayer, in \in DecoInputs :
          AddDecoration(layer, in) =>
              /\ Len(layers'[layer]) = Len(layers[layer]) + 1
              /\ SubSeq(layers'[layer], 1, Len(layers[layer])) = layers[layer]
              /\ layers'[layer][Len(layers'[layer])].cursor = in.cursor
              /\ layers'[layer][Len(layers'[layer])].bg_color = in.bg_color
              /\ layers'[layer][Len(layers'[layer])].full_width = in.full_width
              /\ \A other \in DecorationLayer \ {layer} :
                     layers'[other] = layers[other]]_vars

C20_Witness ==
    /\ lastOp = "add_decoration"
    /\ Len(layers["SEARCH_MATCHES"]) = 2
    /\ layers["SEARCH_MATCHES"][1] = layers["SEARCH_MATCHES"][2]
    /\ Len(layers["CUSTOM"]) = 1

\* C12: whenever the popup goes from visible to hidden, by whatever path
\* (close button, Escape in the popup, Escape with the editor focused,
\* hide_search_popup(), opening the go-to-line overlay), the SEARCH_MATCHES
\* and CURRENT_MATCH layers are empty and the host shows no search highlight.
\* The code clears the layers only in _on_search_closed; the other paths
\* hide the popup and leave the highlights in place.
C12_HiddenPopupHasNoSearchHighlights ==
    [][(popup.visible /\ ~popup'.visible) =>
          /\ layers'["SEARCH_MATCHES"] = <<>>
          /\ layers'["CURRENT_MATCH"] = <<>>
          /\ \A i \in 1..Len(host') :
                 host'[i].background \notin {"search_match", "current_match"}]_vars

\* C15: after a replace-current or replace-all on a writable editor with a
\* non-empty match list, the handler completes, has rescanned the new text
\* with the stored criteria, and has rebuilt the layers: SEARCH_MATCHES holds
\* one decoration per match of the new text and the host shows the layers.
\* The replace call on the search service raises before any rescan.
C15_ReplaceRescansAndRebuilds ==
    [][(/\ lastOp' \in {"replace_current", "replace_all"}
        /\ ~readOnly
        /\ matches # <<>>) =>
          LET fresh == search(SvcInit, doc', last_pattern', case_sensitive',
                              use_regex', whole_word').matches
          IN /\ raised' = "none"
             /\ matches' = fresh
             /\ layers'["SEARCH_MATCHES"] =
                    [i \in 1..Len(fresh) |->
                        Decoration(fresh[i].cursor, "search_match", FALSE)]
             /\ host' = apply(layers')]_vars

\* C17: a popup search request with a non-empty pattern for which
\* needs_research is true scans the document; afterwards, if there are
\* matches, SEARCH_MATCHES holds exactly one decoration per match in list
\* order and CURRENT_MATCH exactly one decoration, for the match at index 0;
\* if there are none, both layers are empty; in both cases the host shows
\* the layers as they now are.
C17_ScanRebuildsSearchLayers ==
    [][(/\ lastOp' = "popup_search"
        /\ popup'.text # <<>>
        /\ needs_research(Svc, popup'.text, popup'.cs, popup'.re, popup'.ww)) =>
          /\ matches' = search(Svc, doc, popup'.text, popup'.cs, popup'.re,
                               popup'.ww).matches
          /\ matches' # <<>> =>
                /\ current_index' = 0
                /\ layers'["SEARCH_MATCHES"] =
                       [i \in 1..Len(matches') |->
                           Decoration(matches'[i].cursor, "search_match", FALSE)]
                /\ layers'["CURRENT_MATCH"] =
                       <<Decoration(matches'[1].cursor, "current_match", FALSE)>>
          /\ matches' = <<>> =>
                /\ layers'["SEARCH_MATCHES"] = <<>>
                /\ layers'["CURRENT_MATCH"] = <<>>
          /\ host' = apply(layers')]_vars

C17_Witness ==
    /\ lastOp = "popup_search"
    /\ popup.text = <<"a">>
    /\ Len(matches) = 2
    /\ Len(layers["SEARCH_MATCHES"]) = 2
    /\ layers["SEARCH_MATCHES"][1] # layers["SEARCH_MATCHES"][2]
    /\ Len(layers["CURRENT_MATCH"]) = 1
    /\ popup.label.total = 2

\* C16 (as stated): a next or previous request with a non-empty match list
\* replaces the content of CURRENT_MATCH with exactly one decoration for the
\* new current match and applies once; SEARCH_MATCHES, CURRENT_LINE and
\* CUSTOM, the match list and the criteria are unchanged; with an empty
\* match list the request changes nothing.
C16_NavigationTouchesOnlyCurrentMatch ==
    [][lastOp' \in {"popup_next", "popup_previous"} =>
          IF matches # <<>>
          THEN /\ layers'["CURRENT_MATCH"] =
                      <<Decoration(matches'[current_index' + 1].cursor,
                                   "current_match", FALSE)>>
               /\ applyCalls' = 1
               /\ layers'["SEARCH_MATCHES"] = layers["SEARCH_MATCHES"]
               /\ layers'["CURRENT_LINE"] = layers["CURRENT_LINE"]
               /\ layers'["CUSTOM"] = layers["CUSTOM"]
               /\ UNCHANGED <<matches, last_pattern, case_sensitive, use_regex,
                              whole_word>>
          ELSE /\ applyCalls' = 0
               /\ UNCHANGED <<layers, host, svcVars, textCursor, popup>>]_vars

\* C16 (amended): a next or previous request with a non-empty match list
\* replaces the content of CURRENT_MATCH with exactly one decoration for the
\* new current match, applies, and moves the text cursor to that match;
\* SEARCH_MATCHES and CUSTOM, the match list and the criteria are unchanged.
\* When the move changes the cursor position and current-line highlighting
\* is enabled, CURRENT_LINE is refreshed: in a writable editor it then holds
\* one full-width decoration at the new cursor and the layers are applied a
\* second time, in a read-only editor it is emptied.  Otherwise CURRENT_LINE
\* is unchanged and the layers are applied exactly once.  With an empty
\* match list the request changes nothing.
C16_NavigationMovesCurrentMatchAndLine ==
    [][lastOp' \in {"popup_next", "popup_previous"} =>
          IF matches # <<>>
          THEN /\ layers'["CURRENT_MATCH"] =
                      <<Decoration(matches'[current_index' + 1].cursor,
                                   "current_match", FALSE)>>
               /\ textCursor' = matches'[current_index' + 1].cursor
               /\ layers'["SEARCH_MATCHES"] = layers["SEARCH_MATCHES"]
               /\ layers'["CUSTOM"] = layers["CUSTOM"]
               /\ UNCHANGED <<matches, last_pattern, case_sensitive, use_regex,
                              whole_word>>
               /\ IF /\ Position(textCursor') # Position(textCursor)
                     /\ current_line_highlight_enabled
                  THEN IF readOnly
                       THEN /\ layers'["CURRENT_LINE"] = <<>>
                            /\ applyCalls' = 1
                       ELSE /\ layers'["CURRENT_LINE"] =
                                   <<Decoration(textCursor', "current_line", TRUE)>>
                            /\ applyCalls' = 2
                  ELSE /\ layers'["CURRENT_LINE"] = layers["CURRENT_LINE"]
                       /\ applyCalls' = 1
          ELSE /\ applyCalls' = 0
               /\ UNCHANGED <<layers, host, svcVars, textCursor, popup>>]_vars

C16_Witness ==
    /\ lastOp = "popup_next"
    /\ Len(matches) = 2
    /\ current_index = 1
    /\ ~readOnly
    /\ applyCalls = 2
    /\ layers["CURRENT_MATCH"] =
           <<Decoration(matches[2].cursor, "current_match", FALSE)>>
    /\ layers["CURRENT_LINE"] = <<Decoration(matches[2].cursor, "current_line", TRUE)>>
    /\ Len(layers["SEARCH_MATCHES"]) = 2

\* C11: closing the search UI leaves the last criteria, the match list and
\* the current index unchanged; reopening the popup right after (no edit and
\* no search in between) with a non-empty match list leaves the list and the
\* current index unchanged and rebuilds the highlights from that list: one
\* SEARCH_MATCHES decoration per match and one CURRENT_MATCH decoration for
\* the match that was current before closing.
\* Reopening first copies the stored pattern into the popup's input; when
\* that changes the input's text, the popup requests a search with its own
\* checkbox states before they are restored, and a rescan resets the index.
C11_CloseAndReopenKeepSession ==
    [][/\ lastOp' = "popup_close" => UNCHANGED svcVars
       /\ (lastOp' = "reopen_search_popup" /\ matches # <<>>) =>
             /\ UNCHANGED <<matches, current_index>>
             /\ layers'["SEARCH_MATCHES"] =
                    [i \in 1..Len(matches) |->
                        Decoration(matches[i].cursor, "search_match", FALSE)]
             /\ layers'["CURRENT_MATCH"] =
                    <<Decoration(matches[current_index + 1].cursor,
                                 "current_match", FALSE)>>
             /\ host' = apply(layers')]_vars

\* C14: whenever a popup search request or show_search_popup has left a
\* non-empty match list (by a scan or by restoring the stored list without
\* calling search()), the stored matches have the start, end and text that
\* a fresh scan of the current document with the stored criteria returns.
\* A step that scans satisfies this by construction; the restore path is
\* taken after an edit as well, since needs_research and has_matches do not
\* look at the document.
C14_RestoredListEqualsFreshScan ==
    (/\ lastOp \in {"show_search_popup", "reopen_search_popup", "popup_search"}
     /\ matches # <<>>) =>
        LET fresh == search(SvcInit, doc, last_pattern, case_sensitive,
                            use_regex, whole_word).matches
        IN /\ Len(matches) = Len(fresh)
           /\ \A i \in 1..Len(matches) :
                 /\ matches[i].start = fresh[i].start
                 /\ matches[i].end = fresh[i].end
                 /\ matches[i].text = fresh[i].text

\* C21: the host's setExtraSelections is called only from
\* DecorationService.apply(), exactly once per apply() call: in every
\* operation the number of setExtraSelections calls equals the number of
\* apply() calls, and the host's list changes only in an operation that
\* called apply().  Adding to or clearing a layer repaints nothing.
C21_HostSetOnlyByApply ==
    [][/\ setCalls' = applyCalls'
       /\ host' # host => applyCalls' >= 1
       /\ (layers' # layers /\ applyCalls' = 0) => host' = host]_vars

C21_Witness ==
    /\ lastOp = "popup_search"
    /\ applyCalls = 2
    /\ setCalls = 2
    /\ Len(layers["SEARCH_MATCHES"]) = 2
    /\ host = apply(layers)

\* C22: when any editor handler returns, the highlight set held by the host
\* equals the flattened current layer contents, in read-only mode too.
\* _highlight_current_line clears CURRENT_LINE and applies only in its
\* writable branch: a cursor move in a read-only editor empties the layer
\* and leaves the old current-line highlight on the host.
C22_HostShowsLayersAfterEveryHandler == host = apply(layers)

\* C23: after any sequence of editor operations every decoration in
\* SEARCH_MATCHES and in CURRENT_MATCH belongs to a match of the current
\* match list, and CURRENT_MATCH, when non-empty, holds exactly the match at
\* the current index.  The public search(pattern) and clear_search() clear
\* SEARCH_MATCHES only and leave the CURRENT_MATCH decoration of an earlier
\* popup search in place.
C23_NoStaleSearchHighlights ==
    /\ \A i \in 1..Len(layers["SEARCH_MATCHES"]) :
          \E j \in 1..Len(matches) :
              matches[j].cursor = layers["SEARCH_MATCHES"][i].cursor
    /\ \A i \in 1..Len(layers["CURRENT_MATCH"]) :
          \E j \in 1..Len(matches) :
              matches[j].cursor = layers["CURRENT_MATCH"][i].cursor
    /\ layers["CURRENT_MATCH"] # <<>> =>
          /\ current_index >= 0
          /\ current_index < Len(matches)
          /\ layers["CURRENT_MATCH"] =
                 <<Decoration(matches[current_index + 1].cursor,
                              "current_match", FALSE)>>

\* C24: no zero-width match is ever stored: every match in the list left by
\* search() has end > start, for every pattern, including regular
\* expressions that can match the empty string.
\* The regex loop's guard against zero-width matches compares the position
\* with the previous one, so the first empty match at a position is stored.
C24_NoZeroWidthMatchStored ==
    \A i \in 1..Len(matches) : matches[i].end > matches[i].start

\* C25: every match stored by search() satisfies
\* 0 <= start <= end <= document length; when the find primitive returns a
\* span whose position lies beyond the document, that candidate is not
\* stored and the scan stops with the matches collected so far.
C25_StoredMatchesWithinDocument ==
    [][/\ \A i \in 1..Len(matches') :
             /\ 0 <= matches'[i].start
             /\ matches'[i].start <= matches'[i].end
             /\ matches'[i].end <= Len(doc')
       /\ (/\ scan.running
           /\ ~scan.cur.null
           /\ Position(scan.cur) > Len(doc)) =>
             /\ matches' = matches
             /\ ~scan'.running]_vars

C25_Witness ==
    /\ ~scan.running
    /\ ~scan.cur.null
    /\ Position(scan.cur) > Len(doc)
    /\ Len(matches) = 2
    /\ ret = 2
    /\ current_index = 0

\* C26: a match list handed out by get_matches() is immutable once
\* returned: after a later search() or clear() the list object the caller
\* holds still has the contents it had when it was returned.
\* get_matches returns the service's own list, and search() and clear()
\* empty and refill that list in place.
C26_ReturnedListKeepsItsContents ==
    returned.held => HeldList = returned.contents

\* C27: replace-current on a writable editor with a current match returns
\* normally and replaces exactly the span of that match with the
\* replacement text, leaving every other occurrence of the pattern in place.
\* SearchService has no replace_current: the handler's call raises and the
\* document is never edited.
C27_ReplaceCurrentEditsOnlyCurrentSpan ==
    [][(/\ lastOp' = "replace_current"
        /\ ~readOnly
        /\ get_current_match(Svc) # <<>>) =>
          LET m == get_current_match(Svc)[1] IN
          /\ raised' = "none"
          /\ \E r \in Replacements :
                 doc' = SubSeq(doc, 1, m.start) \o r \o
                        SubSeq(doc, m.end + 1, Len(doc))]_vars

\* C28: next_match() and previous_match() called before any search(), or
\* with an empty match list, return no match without raising and leave the
\* current index at -1 and the list empty; get_current_match() returns no
\* match in every state whose list is empty.
C28_NavigationWithoutMatches ==
    [][/\ (lastOp' \in {"next_match", "previous_match"} /\ matches = <<>>) =>
             /\ ret' = 0
             /\ raised' = "none"
             /\ current_index' = -1
             /\ matches' = <<>>
       /\ matches' = <<>> =>
             /\ get_current_match(Svc') = <<>>
             /\ current_index' = -1]_vars

C28_Witness ==
    /\ lastOp = "previous_match"
    /\ args = <<>>
    /\ last_pattern = <<>>
    /\ matches = <<>>
    /\ current_index = -1
    /\ ret = 0
    /\ doc # <<>>

\* C29: changing the popup's pattern text to the empty string records the
\* empty pattern as the last criteria and empties the match list and both
\* search layers; closing keeps that; reopening the popup right after the
\* close then restores no earlier query: the search box is empty, the match
\* list is empty, the session and the layers are left as they are (no scan
\* is run) and SEARCH_MATCHES and CURRENT_MATCH stay empty.
C29_EmptyPatternIsNotStaleRestored ==
    [][/\ (lastOp' = "popup_search" /\ popup'.text = <<>>) =>
             /\ last_pattern' = <<>>
             /\ popup'.last_pattern = <<>>
             /\ matches' = <<>>
             /\ layers'["SEARCH_MATCHES"] = <<>>
             /\ layers'["CURRENT_MATCH"] = <<>>
       /\ lastOp' = "popup_close" =>
             /\ UNCHANGED <<last_pattern, matches>>
             /\ popup'.text = popup.text
             /\ popup'.last_pattern = popup.last_pattern
             /\ layers'["SEARCH_MATCHES"] = <<>>
             /\ layers'["CURRENT_MATCH"] = <<>>
       /\ (/\ lastOp' = "reopen_search_popup"
           /\ last_pattern = <<>>
           /\ popup.last_pattern = <<>>
           /\ popup.text = <<>>) =>
             /\ popup'.visible
             /\ popup'.text = <<>>
             /\ matches' = <<>>
             /\ UNCHANGED <<svcVars, layers, host>>
             /\ applyCalls' = 0
             /\ layers'["SEARCH_MATCHES"] = <<>>
             /\ layers'["CURRENT_MATCH"] = <<>>]_vars

C29_Witness ==
    /\ lastOp = "reopen_search_popup"
    /\ popup.visible
    /\ popup.text = <<>>
    /\ popup.last_pattern = <<>>
    /\ last_pattern = <<>>
    /\ matches = <<>>
    /\ doc = <<"a", "a">>
    /\ textCursor = Cursor(0, 1)
    /\ layers["SEARCH_MATCHES"] = <<>>

\* C30: when the go-to-line overlay is showing and its input holds a line
\* number greater than the document's maximum line, the feedback label does
\* not show the success indicator: it reports the input as invalid or out
\* of range.
\* _on_text_changed clamps the number to the maximum line, jumps there and
\* shows the check mark with the clamped line.
C30_OutOfRangeLineIsReported ==
    (/\ overlay.visible
     /\ overlay.input # <<>>
     /\ overlay.input[1] > overlay.max_line) => overlay.label.kind # "ok"

-----------------------------------------------------------------------------
(* The scan loop is about to run its body on a cursor that stands where the *)
(* previously stored match ended; RetryPosition is next_pos of the source.  *)
NonAdvancing == scan.running /\ LoopGuard(ScanLocals) /\ Position(scan.cur) = scan.last

RetryPosition == Position(scan.cur) + 1

\* C31: in the scan loop, when the cursor that find returned stands at the
\* position of the previously stored match, the step stores nothing; in a
\* regex scan it stops when that position plus one is past the last position
\* of the document, and otherwise retries find from exactly that position plus
\* one and stays in the loop; in a plain-text scan it leaves the loop at once.
C31_NonAdvancingStep ==
    [][NonAdvancing =>
         /\ matches' = matches
         /\ IF ~use_regex THEN ~scan'.running
            ELSE IF RetryPosition >= characterCount(doc) THEN ~scan'.running
            ELSE /\ scan'.running
                 /\ StepResult.cur =
                        DocumentFind(doc, last_pattern, TRUE,
                                     Cursor(RetryPosition, RetryPosition),
                                     case_sensitive, whole_word)]_vars

C31_Witness ==
    /\ scan.running
    /\ use_regex
    /\ scan.iter > Len(matches)

-----------------------------------------------------------------------------
\* C32: whatever the criteria, the stored match list is in document order and
\* its matches do not overlap: each match starts after the start of the one
\* before it and not before that one's end.
C32_MatchesOrderedAndDisjoint ==
    \A i \in 1..(Len(matches) - 1) :
        /\ matches[i].start < matches[i + 1].start
        /\ matches[i].end <= matches[i + 1].start

C32_Witness ==
    /\ lastOp = "search"
    /\ use_regex
    /\ Len(matches) >= 2
    /\ matches[1].start = matches[1].end

-----------------------------------------------------------------------------
\* C33: when the regex compiler or matcher has raised inside
\* _find_regex_matches of the model-backed service, the function returns an
\* empty list, search() then reports 0 matches and stores none, and no
\* exception leaves search().
C33_RaisingRegexYieldsNoMatches ==
    /\ (modelSearch.raised /\ modelSearch.mode = "done") => modelSearch.found = <<>>
    /\ (modelSearch.raised /\ modelSearch.mode = "idle") =>
           /\ ret = 0
           /\ modelSearch.model.matches = <<>>
           /\ raised = "none"

\* C34: a scan of the model-backed service calls the find primitive at most
\* MAX_ITERATIONS times.
C34_FindCallsBounded == modelSearch.calls <= MAX_ITERATIONS

-----------------------------------------------------------------------------
\* C35: show_search_popup, called while the session records a non-empty
\* pattern and holds a non-empty match list, leaves the recorded pattern, the
\* three recorded flags, the match list and the current index as they were.
C35_ShowPopupKeepsSession ==
    [][(/\ lastOp' \in {"show_search_popup", "reopen_search_popup"}
        /\ last_pattern # <<>>
        /\ matches # <<>>) => UNCHANGED svcVars]_vars

-----------------------------------------------------------------------------
\* C36: once the search popup exists, after every editor operation its
\* match-count display agrees with the session: "(current index + 1) of
\* (number of matches)" when the match list is non-empty, and the no-results
\* state when it is empty.
C36_MatchCountAgreesWithSession ==
    popup.exists =>
        IF matches # <<>>
        THEN /\ popup.label.text = "of"
             /\ popup.label.current = current_index + 1
             /\ popup.label.total = Len(matches)
        ELSE popup.label.text = "No results"

-----------------------------------------------------------------------------
(* The decorations of a layer that carry the hover colour *)
HoverDecorations(layer) ==
    {i \in 1..Len(layers[layer]) : layers[layer][i].bg_color = "hover"}

\* C37: at any time at most one hover decoration exists over all layers, and
\* after the mouse has left the editor (with hover enabled) or while hover is
\* disabled, no layer holds a hover decoration.
C37_HoverNeverLeaks ==
    /\ Cardinality(HoverDecorations("CUSTOM")) +
       Cardinality(HoverDecorations("CURRENT_LINE")) +
       Cardinality(HoverDecorations("SEARCH_MATCHES")) +
       Cardinality(HoverDecorations("CURRENT_MATCH")) <= 1
    /\ ((lastOp = "leaveEvent" /\ hover.enabled) \/ ~hover.enabled) =>
           \A layer \in DecorationLayer : HoverDecorations(layer) = {}

====
